---- MODULE Spec2Model ----
(***************************************************************************)
(* fzy-tmux: a driver that opens a tmux split pane running the fzy picker  *)
(* and relays stdin / stdout / exit status through three named FIFOs.      *)
(* Model of src/src/main.rs: the driver's main thread, its input-copy      *)
(* thread, and the pane-side shell command the driver constructs.          *)
(*                                                                         *)
(* Byte strings are sequences of byte values (0..255).                     *)
(***************************************************************************)
EXTENDS Integers, Sequences, FiniteSets, TLC

(***************************************************************************)
(* Bounds of the model.                                                    *)
(***************************************************************************)
\* longest raw TMUX value enumerated by InitEnv
MaxTokLen == 5
\* longest `ret` content enumerated by InitRet
MaxRetLen == 3
\* most bytes on the driver's standard input
MaxStdin == 3
\* most bytes the picker writes to `out`
MaxOut == 3
\* capacity of a FIFO's kernel buffer, in bytes
PipeCap == 2
\* most bytes one read() of a copy loop returns
ChunkMax == 2
\* most bytes on standard input in the runs checked for progress (InitFair)
MaxStdinFair == 1

(***************************************************************************)
(* Program constants.                                                      *)
(***************************************************************************)
\* b',' (main.rs:55)
Comma == 44
\* exit status of a Rust main that returns Err (main.rs:65)
GenericFailure == 1
\* i32::MAX, the largest value parse::<i32> accepts (main.rs:126)
I32Max == 2147483647
\* a process exit status keeps the low eight bits of exit()'s argument (main.rs:128)
ExitStatusBits == 8

None == <<-1>>
Min(a, b) == IF a < b THEN a ELSE b

Fifos == {"in", "out", "ret"}
\* the order of the array at main.rs:76
FifoOrder == <<"in", "out", "ret">>

(***************************************************************************)
(* filter_tmux (main.rs:48-62).                                            *)
(* `find` walks the bytes left to right; the closure bumps comma_count on  *)
(* a comma and answers comma_count == 2; the index of the first hit is the *)
(* (exclusive) end, bytes.len() when there is none.                        *)
(***************************************************************************)
RECURSIVE FindEnd(_, _, _)
FindEnd(bytes, i, comma_count) ==
  IF i > Len(bytes) THEN Len(bytes)
  ELSE LET c == IF bytes[i] = Comma THEN comma_count + 1 ELSE comma_count
       IN  IF c = 2 THEN i - 1 ELSE FindEnd(bytes, i + 1, c)

\* mutant: the slice keeps the second comma (an inclusive end)
filter_tmux_inclusive(tmux) ==
  SubSeq(tmux, 1, Min(Len(tmux), FindEnd(tmux, 1, 0) + 1))

filter_tmux(tmux) == SubSeq(tmux, 1, FindEnd(tmux, 1, 0))

(***************************************************************************)
(* env::var_os (main.rs:66): the value of a variable of the environment,   *)
(* None when it is not set.  An environment is a set of <<name, value>>.   *)
(***************************************************************************)
var_os(env, name) ==
  IF \E p \in env : p[1] = name
  THEN (CHOOSE p \in env : p[1] = name)[2]
  ELSE None

\* mutant: the child inherits the driver's environment (no env_clear)
CommandEnvInherit(env, t) ==
  {p \in env : p[1] # "TMUX"} \cup {<<"TMUX", t>>}

\* Command::new("tmux").env_clear().env("TMUX", tmux) (main.rs:88-90)
CommandEnv(env, t) == {<<"TMUX", t>>}

(***************************************************************************)
(* Decoding of the exit code (main.rs:123-127).                            *)
(***************************************************************************)
IsCont(x) == x \in 128..191

\* length of the UTF-8 sequence b starts with, 0 when it is not well formed
Utf8Width(b) ==
  LET n == Len(b)
      b1 == b[1]
  IN  IF b1 < 128 THEN 1
      ELSE IF b1 \in 194..223
      THEN IF n >= 2 /\ IsCont(b[2]) THEN 2 ELSE 0
      ELSE IF b1 \in 224..239
      THEN IF /\ n >= 3
              /\ IsCont(b[3])
              /\ IF b1 = 224 THEN b[2] \in 160..191
                 ELSE IF b1 = 237 THEN b[2] \in 128..159
                 ELSE IsCont(b[2])
           THEN 3 ELSE 0
      ELSE IF b1 \in 240..244
      THEN IF /\ n >= 4
              /\ IsCont(b[3])
              /\ IsCont(b[4])
              /\ IF b1 = 240 THEN b[2] \in 144..191
                 ELSE IF b1 = 244 THEN b[2] \in 128..143
                 ELSE IsCont(b[2])
           THEN 4 ELSE 0
      ELSE 0

\* the code point of the well-formed sequence of w bytes b starts with
CodePoint(b, w) ==
  IF w = 1 THEN b[1]
  ELSE IF w = 2 THEN (b[1] - 192) * 64 + (b[2] - 128)
  ELSE IF w = 3 THEN (b[1] - 224) * 4096 + (b[2] - 128) * 64 + (b[3] - 128)
  ELSE (b[1] - 240) * 262144 + (b[2] - 128) * 4096 + (b[3] - 128) * 64
       + (b[4] - 128)

\* str::from_utf8 (main.rs:123): the chars of the bytes, None when invalid
RECURSIVE from_utf8(_)
from_utf8(b) ==
  IF b = <<>> THEN <<>>
  ELSE LET w == Utf8Width(b)
       IN  IF w = 0 THEN None
           ELSE LET rest == from_utf8(SubSeq(b, w + 1, Len(b)))
                IN  IF rest = None THEN None
                    ELSE <<CodePoint(b, w)>> \o rest

\* char::is_whitespace: the Unicode White_Space code points
IsWhitespace(c) ==
  \/ c \in 9..13
  \/ c \in {32, 133, 160, 5760, 8232, 8233, 8239, 8287, 12288}
  \/ c \in 8192..8202

\* mutant: nothing is trimmed
trim_end_nothing(chars) == chars

\* str::trim_end (main.rs:125)
RECURSIVE trim_end(_)
trim_end(chars) ==
  IF chars # <<>> /\ IsWhitespace(chars[Len(chars)])
  THEN trim_end(SubSeq(chars, 1, Len(chars) - 1))
  ELSE chars

ParseErr == <<>>

\* the digit loop of parse::<i32>: checked multiply-and-add (subtract for a
\* negative number), an error on a non-digit or on overflow
RECURSIVE ParseDigits(_, _, _, _)
ParseDigits(d, i, acc, positive) ==
  IF i > Len(d) THEN <<acc>>
  ELSE IF d[i] \notin 48..57 THEN ParseErr
  ELSE LET x == d[i] - 48
       IN  IF positive
           THEN IF acc > (I32Max - x) \div 10 THEN ParseErr
                ELSE ParseDigits(d, i + 1, acc * 10 + x, positive)
           ELSE IF acc < ((-I32Max - 1) + x + 9) \div 10 THEN ParseErr
                ELSE ParseDigits(d, i + 1, acc * 10 - x, positive)

\* mutant: an empty text parses as 0
parse_i32_empty_zero(chars) ==
  IF chars = <<>> THEN <<0>>
  ELSE IF Len(chars) = 1 /\ chars[1] \in {43, 45} THEN ParseErr
  ELSE IF chars[1] = 43 THEN ParseDigits(Tail(chars), 1, 0, TRUE)
  ELSE IF chars[1] = 45 THEN ParseDigits(Tail(chars), 1, 0, FALSE)
  ELSE ParseDigits(chars, 1, 0, TRUE)

\* str::parse::<i32> (main.rs:126): <<n>>, or ParseErr
parse_i32(chars) ==
  IF chars = <<>> THEN ParseErr
  ELSE IF Len(chars) = 1 /\ chars[1] \in {43, 45} THEN ParseErr
  ELSE IF chars[1] = 43 THEN ParseDigits(Tail(chars), 1, 0, TRUE)
  ELSE IF chars[1] = 45 THEN ParseDigits(Tail(chars), 1, 0, FALSE)
  ELSE ParseDigits(chars, 1, 0, TRUE)

\* the status a parent sees after exit(rc): the low eight bits (main.rs:128)
ExitStatus(rc) == rc % (2 ^ ExitStatusBits)

VARIABLES
  \* inputs, fixed by Init
  environ,      \* the driver's environment
  stdinData,    \* the bytes on the driver's standard input
  stdinCloses,  \* whether standard input ever reaches end-of-input
  retScript,    \* what a stand-in for the pane writes to `ret` (InitRet)
  \* the driver's main thread
  pc,           \* position in main
  tmux,         \* the filtered TMUX value (main.rs:67)
  tmuxProc,     \* "none" | "failed" | "running": the spawned tmux command
  childEnv,     \* the environment given to tmux
  dOpenOk,      \* the other end was open when main entered open(), or since
  copyBuf,      \* io::copy's buffer: read from `out`, not yet written
  stdout,       \* bytes the copy has written to the standard output handle
  retBuf,       \* buf of read_to_end (main.rs:119)
  \* termination
  termKind,     \* "none" | "exit" | "fatal"
  exitCode,     \* the process exit status, -1 while running
  errCtx,       \* the context of the fatal error
  errPath,      \* the path the fatal error names, "" when none
  \* filesystem
  dirExists,    \* the temporary directory exists
  exists,       \* the FIFOs that exist
  rd, wr,       \* per FIFO, the processes holding its read / write end
  buf,          \* per FIFO, the bytes in the kernel buffer
  opened,       \* history: every <<process, fifo, mode>> ever opened
  \* the input-copy thread
  tpc,          \* "none" | "copy" | "done"
  tBuf,         \* io::copy's buffer: read from stdin, not yet written
  stdinPos,     \* bytes of standard input consumed
  inWritten,    \* history: bytes written to `in`
  threadErr,    \* the thread reported an I/O error
  \* the pane: shell command and picker
  ppc,          \* position in the pane-side command
  pOpenOk,      \* the other end was open when the shell entered open(), or since
  paneIn,       \* bytes the picker has read from `in`
  paneOut,      \* history: bytes the picker has written to `out`
  pickerStatus, \* the picker command's exit status, -1 before it ends
  markers,      \* history: the exit markers written to `ret`
  peerPos       \* bytes of retScript the stand-in has written

inputVars == <<environ, stdinData, stdinCloses, retScript>>
mainVars == <<pc, tmux, tmuxProc, childEnv, dOpenOk, copyBuf, stdout, retBuf>>
termVars == <<termKind, exitCode, errCtx, errPath>>
fsVars == <<dirExists, exists, rd, wr, buf, opened>>
threadVars == <<tpc, tBuf, stdinPos, inWritten, threadErr>>
paneVars == <<ppc, pOpenOk, paneIn, paneOut, pickerStatus, markers, peerPos>>
vars == <<inputVars, mainVars, termVars, fsVars, threadVars, paneVars>>

(***************************************************************************)
(* Input sets.                                                             *)
(***************************************************************************)
\* bytes of a raw TMUX value: ',' and 'a'
TokAlphabet == {Comma, 97}
Strings(alphabet, n) == UNION {[1..k -> alphabet] : k \in 0..n}
\* variables of the driver's environment other than TMUX
OtherVars == {<<"HOME", <<104>>>>, <<"SSH_AUTH_SOCK", <<115>>>>}
Environments(tokens, others) ==
  {tm \cup oth : tm \in {{}} \cup {{<<"TMUX", t>>} : t \in tokens},
                 oth \in others}
\* the raw TMUX value of the full-system runs: "a,a,a"
SampleToken == <<97, Comma, 97, Comma, 97>>
StdinBytes(n) == [i \in 1..n |-> i]

(***************************************************************************)
(* Initial states.                                                         *)
(***************************************************************************)
InitRest ==
  /\ pc = "read_env" /\ tmux = None /\ tmuxProc = "none" /\ childEnv = {}
  /\ dOpenOk = FALSE /\ copyBuf = <<>> /\ stdout = <<>> /\ retBuf = <<>>
  /\ termKind = "none" /\ exitCode = -1 /\ errCtx = "" /\ errPath = ""
  /\ dirExists = FALSE /\ exists = {}
  /\ rd = [f \in Fifos |-> {}] /\ wr = [f \in Fifos |-> {}]
  /\ buf = [f \in Fifos |-> <<>>] /\ opened = {}
  /\ tpc = "none" /\ tBuf = <<>> /\ stdinPos = 0 /\ inWritten = <<>>
  /\ threadErr = FALSE
  /\ ppc = "none" /\ pOpenOk = FALSE /\ paneIn = <<>> /\ paneOut = <<>>
  /\ pickerStatus = -1 /\ markers = <<>> /\ peerPos = 0

Init ==
  /\ environ \in Environments({SampleToken}, {OtherVars})
  /\ stdinData \in {StdinBytes(n) : n \in 0..MaxStdin}
  /\ stdinCloses \in BOOLEAN
  /\ retScript = <<>>
  /\ InitRest

\* every raw TMUX value up to MaxTokLen bytes, every set of other variables
InitEnv ==
  /\ environ \in Environments(Strings(TokAlphabet, MaxTokLen), SUBSET OtherVars)
  /\ stdinData = <<>>
  /\ stdinCloses = TRUE
  /\ retScript = <<>>
  /\ InitRest

(***************************************************************************)
(* Termination of the driver process.                                      *)
(***************************************************************************)
\* the kernel closes every descriptor of the ended process
ProcessTeardown(ends) == [f \in Fifos |-> ends[f] \ {"driver"}]

\* mutant: the directory is leaked, nothing is removed
TempDirKeep(d, e) == <<d, e>>

\* TempDir's drop removes the directory and everything in it (main.rs:71)
TempDirDrop(d, e) == <<FALSE, {}>>

\* mutant: a failing main exits with status 0
FailureStatusZero == GenericFailure - 1

\* `main` returns Err: the error is printed and the status is 1 (main.rs:65)
FailureStatus == GenericFailure

\* a `?` of main fires: the locals are dropped, the process ends
Fatal(ctx, path) ==
  /\ termKind' = "fatal"
  /\ exitCode' = FailureStatus
  /\ errCtx' = ctx
  /\ errPath' = path
  /\ pc' = "done"
  /\ dirExists' = TempDirDrop(dirExists, exists)[1]
  /\ exists' = TempDirDrop(dirExists, exists)[2]
  /\ rd' = ProcessTeardown(rd)
  /\ wr' = ProcessTeardown(wr)
  /\ UNCHANGED <<inputVars, tmux, childEnv, dOpenOk, copyBuf, retBuf, buf,
                 opened, threadVars, paneVars>>

Running == termKind = "none"

(***************************************************************************)
(* main, up to the launch of the pane (main.rs:66-98).                     *)
(***************************************************************************)
\* mutant: a missing variable is not an error
ContextNoneIgnored(v) == FALSE

\* Option::context(..)? (main.rs:66): None is the error
ContextNone(v) == v = None

\* main.rs:66-67
MainReadEnv ==
  /\ Running /\ pc = "read_env"
  /\ LET v == var_os(environ, "TMUX")
     IN  IF ContextNone(v)
         THEN Fatal("TMUX variable not found", "") /\ UNCHANGED <<stdout, tmuxProc>>
         ELSE /\ tmux' = filter_tmux(v)
              /\ pc' = "mk_tmp"
              /\ UNCHANGED <<inputVars, tmuxProc, childEnv, dOpenOk, copyBuf,
                             stdout, retBuf, termVars, fsVars, threadVars,
                             paneVars>>

\* main.rs:71
MainTempDir ==
  /\ Running /\ pc = "mk_tmp"
  /\ \/ /\ dirExists' = TRUE
        /\ pc' = "mk_fifo"
        /\ UNCHANGED <<inputVars, tmux, tmuxProc, childEnv, dOpenOk, copyBuf,
                       stdout, retBuf, termVars, exists, rd, wr, buf, opened,
                       threadVars, paneVars>>
     \/ Fatal("failed to create temporary directory", "")
        /\ UNCHANGED <<stdout, tmuxProc>>

\* make_fifo (main.rs:32-44): mkfifo creates the path when rc == 0
make_fifo(path, rc) == IF rc = 0 THEN exists \cup {path} ELSE exists

\* the FIFO the loop of main.rs:76 is at
NextFifo == FifoOrder[Cardinality(exists) + 1]

\* main.rs:76-79, one iteration
MainMakeFifo ==
  /\ Running /\ pc = "mk_fifo"
  /\ \E rc \in {0, -1} :
       IF rc = 0
       THEN /\ exists' = make_fifo(NextFifo, rc)
            /\ pc' = IF Cardinality(exists') = Len(FifoOrder)
                     THEN "spawn" ELSE "mk_fifo"
            /\ UNCHANGED <<inputVars, tmux, tmuxProc, childEnv, dOpenOk,
                           copyBuf, stdout, retBuf, termVars, dirExists, rd,
                           wr, buf, opened, threadVars, paneVars>>
       ELSE Fatal("failed to create FIFO", NextFifo)
            /\ UNCHANGED <<stdout, tmuxProc>>

\* main.rs:81-98: build the pane command, spawn tmux
MainSpawnTmux ==
  /\ Running /\ pc = "spawn"
  /\ \/ /\ tmuxProc' = "running"
        /\ childEnv' = CommandEnv(environ, tmux)
        /\ ppc' = "launched"
        /\ pc' = "open_in"
        /\ UNCHANGED <<inputVars, tmux, dOpenOk, copyBuf, stdout, retBuf,
                       termVars, fsVars, threadVars, pOpenOk, paneIn, paneOut,
                       pickerStatus, markers, peerPos>>
     \/ /\ tmuxProc' = "failed"
        /\ Fatal("failed to execute tmux command", "")
        /\ UNCHANGED stdout

NextEnv == MainReadEnv \/ MainTempDir \/ MainMakeFifo \/ MainSpawnTmux

\* the driver from start to the launch of the pane, over every environment
SpecEnv == InitEnv /\ [][NextEnv]_vars

(***************************************************************************)
(* FIFOs.  open(2) of a FIFO counts the opener on its end at once and      *)
(* returns when the other end is open at that moment, or has been opened   *)
(* since, even if it was closed again in between.                          *)
(***************************************************************************)
AddEnd(ends, f, proc) == [ends EXCEPT ![f] = @ \cup {proc}]
DropEnd(ends, f, proc) == [ends EXCEPT ![f] = @ \ {proc}]
Other(m) == IF m = "r" THEN "w" ELSE "r"
PeerPresent(f, m) == IF m = "w" THEN rd[f] # {} ELSE wr[f] # {}
Room(f) == PipeCap - Len(buf[f])

\* mutant: the driver opens `out` for writing
MainOpensOutForWrite(s) ==
  CASE s = "in"  -> [fifo |-> "in",  mode |-> "w"]
    [] s = "out" -> [fifo |-> "out", mode |-> "w"]
    [] s = "ret" -> [fifo |-> "ret", mode |-> "r"]

\* the FIFO and mode of main's three opens (main.rs:100-103, 113, 118)
MainOpens(s) ==
  CASE s = "in"  -> [fifo |-> "in",  mode |-> "w"]
    [] s = "out" -> [fifo |-> "out", mode |-> "r"]
    [] s = "ret" -> [fifo |-> "ret", mode |-> "r"]

\* mutant: the redirections are written `> out < in`, `out` is opened first
PaneOpensOutFirst(s) ==
  CASE s = "in"  -> [fifo |-> "out", mode |-> "w"]
    [] s = "out" -> [fifo |-> "in",  mode |-> "r"]
    [] s = "ret" -> [fifo |-> "ret", mode |-> "w"]

\* the FIFO and mode of the shell's redirections (main.rs:82)
PaneOpens(s) ==
  CASE s = "in"  -> [fifo |-> "in",  mode |-> "r"]
    [] s = "out" -> [fifo |-> "out", mode |-> "w"]
    [] s = "ret" -> [fifo |-> "ret", mode |-> "w"]

MainWaitStage ==
  CASE pc = "wait_in" -> "in" [] pc = "wait_out" -> "out"
    [] pc = "wait_ret" -> "ret" [] OTHER -> ""
PaneWaitStage ==
  CASE ppc = "p_wait_in" -> "in" [] ppc = "p_wait_out" -> "out"
    [] ppc \in {"echo0_wait", "echo1_wait", "peer_wait"} -> "ret"
    [] OTHER -> ""
MainWaits(f, m) ==
  /\ Running /\ MainWaitStage # ""
  /\ MainOpens(MainWaitStage) = [fifo |-> f, mode |-> m]
PaneWaits(f, m) ==
  /\ PaneWaitStage # ""
  /\ PaneOpens(PaneWaitStage) = [fifo |-> f, mode |-> m]

\* exit(rc) (main.rs:128): the process ends at once, no destructor runs
Exit(rc) ==
  /\ termKind' = "exit"
  /\ exitCode' = ExitStatus(rc)
  /\ pc' = "done"
  /\ rd' = ProcessTeardown(rd)
  /\ wr' = ProcessTeardown(wr)
  /\ UNCHANGED <<inputVars, tmux, tmuxProc, childEnv, dOpenOk, copyBuf,
                 stdout, retBuf, errCtx, errPath, dirExists, exists, buf,
                 opened, threadVars, paneVars>>

(***************************************************************************)
(* main, from the launch of the pane on (main.rs:100-128).                 *)
(***************************************************************************)
\* open() is entered: the driver is counted on its end, or the call fails
MainOpen(at, wait, s, ctx) ==
  /\ Running /\ pc = at
  /\ LET o == MainOpens(s)
     IN  \/ /\ rd' = IF o.mode = "r" THEN AddEnd(rd, o.fifo, "driver") ELSE rd
            /\ wr' = IF o.mode = "w" THEN AddEnd(wr, o.fifo, "driver") ELSE wr
            /\ opened' = opened \cup {<<"driver", o.fifo, o.mode>>}
            /\ dOpenOk' = PeerPresent(o.fifo, o.mode)
            /\ pOpenOk' = (pOpenOk \/ PaneWaits(o.fifo, Other(o.mode)))
            /\ pc' = wait
            /\ UNCHANGED <<inputVars, tmux, tmuxProc, childEnv, copyBuf,
                           stdout, retBuf, termVars, dirExists, exists, buf,
                           threadVars, ppc, paneIn, paneOut, pickerStatus,
                           markers, peerPos>>
         \/ Fatal(ctx, "") /\ UNCHANGED <<stdout, tmuxProc>>

\* open() returns: the other end is, or has been, open
MainOpened(wait, s, next) ==
  /\ Running /\ pc = wait
  /\ dOpenOk \/ PeerPresent(MainOpens(s).fifo, MainOpens(s).mode)
  /\ dOpenOk' = FALSE
  /\ pc' = next

\* main.rs:100-103
MainOpenIn == MainOpen("open_in", "wait_in", "in", "failed to open stdin FIFO")

\* mutant: main goes from `in` straight to `ret`, `out` is never copied
MainOpenInDoneSkipsOut ==
  /\ MainOpened("wait_in", "in", "open_ret")
  /\ tpc' = "copy"
  /\ UNCHANGED <<inputVars, tmux, tmuxProc, childEnv, copyBuf, stdout,
                 retBuf, termVars, fsVars, tBuf, stdinPos, inWritten,
                 threadErr, paneVars>>

\* main.rs:100-111: the open returns and the input-copy thread is spawned
MainOpenInDone ==
  /\ MainOpened("wait_in", "in", "open_out")
  /\ tpc' = "copy"
  /\ UNCHANGED <<inputVars, tmux, tmuxProc, childEnv, copyBuf, stdout,
                 retBuf, termVars, fsVars, tBuf, stdinPos, inWritten,
                 threadErr, paneVars>>

\* main.rs:113
MainOpenOut ==
  MainOpen("open_out", "wait_out", "out", "failed to open stdout FIFO")

MainOpenOutDone ==
  /\ MainOpened("wait_out", "out", "copy_out")
  /\ UNCHANGED <<inputVars, tmux, tmuxProc, childEnv, copyBuf,
                 stdout, retBuf, termVars, fsVars, threadVars, paneVars>>

\* main.rs:114-115, io::copy: one read of `out`
MainCopyRead ==
  /\ Running /\ pc = "copy_out"
  /\ copyBuf = <<>> /\ buf["out"] # <<>>
  /\ \E k \in 1..Min(ChunkMax, Len(buf["out"])) :
       /\ copyBuf' = SubSeq(buf["out"], 1, k)
       /\ buf' = [buf EXCEPT !["out"] = SubSeq(@, k + 1, Len(@))]
  /\ UNCHANGED <<inputVars, pc, tmux, tmuxProc, childEnv, dOpenOk, stdout,
                 retBuf, termVars, dirExists, exists, rd, wr, opened,
                 threadVars, paneVars>>

\* mutant: the copy drops the first byte of every chunk
CopyWriteDropFirst(out, chunk) == out \o Tail(chunk)

\* io::copy's write_all of what it read
CopyWrite(out, chunk) == out \o chunk

\* main.rs:114-115, io::copy: the chunk is written to standard output
MainCopyWrite ==
  /\ Running /\ pc = "copy_out"
  /\ copyBuf # <<>>
  /\ stdout' = CopyWrite(stdout, copyBuf)
  /\ copyBuf' = <<>>
  /\ UNCHANGED <<inputVars, pc, tmux, tmuxProc, childEnv, dOpenOk, retBuf,
                 termVars, fsVars, threadVars, paneVars>>

\* mutant: main joins the input-copy thread before it goes on to `ret`
MainCopyEofJoins ==
  /\ Running /\ pc = "copy_out"
  /\ copyBuf = <<>> /\ buf["out"] = <<>> /\ wr["out"] = {}
  /\ tpc = "done"
  /\ pc' = "open_ret"
  /\ UNCHANGED <<inputVars, tmux, tmuxProc, childEnv, dOpenOk, copyBuf,
                 stdout, retBuf, termVars, fsVars, threadVars, paneVars>>

\* mutant: the read of `out` gives up on an empty FIFO (a timeout)
MainCopyEofTimeout ==
  /\ Running /\ pc = "copy_out"
  /\ copyBuf = <<>> /\ buf["out"] = <<>>
  /\ pc' = "open_ret"
  /\ UNCHANGED <<inputVars, tmux, tmuxProc, childEnv, dOpenOk, copyBuf,
                 stdout, retBuf, termVars, fsVars, threadVars, paneVars>>

\* main.rs:114-115, io::copy: read() answers 0, every writer has closed
MainCopyEof ==
  /\ Running /\ pc = "copy_out"
  /\ copyBuf = <<>> /\ buf["out"] = <<>> /\ wr["out"] = {}
  /\ pc' = "open_ret"
  /\ UNCHANGED <<inputVars, tmux, tmuxProc, childEnv, dOpenOk, copyBuf,
                 stdout, retBuf, termVars, fsVars, threadVars, paneVars>>

\* mutant: the error of the copy is swallowed and main goes on to `ret`
MainCopyFailSwallowed ==
  /\ Running /\ pc = "copy_out"
  /\ \E k \in 0..Len(copyBuf) : stdout' = stdout \o SubSeq(copyBuf, 1, k)
  /\ pc' = "open_ret"
  /\ copyBuf' = <<>>
  /\ UNCHANGED <<inputVars, tmux, tmuxProc, childEnv, dOpenOk, retBuf,
                 termVars, fsVars, threadVars, paneVars>>

\* main.rs:114-115: a read of `out` or a write of standard output fails,
\* the write after any part of the chunk
MainCopyFail ==
  /\ Running /\ pc = "copy_out"
  /\ \E k \in 0..Len(copyBuf) : stdout' = stdout \o SubSeq(copyBuf, 1, k)
  /\ Fatal("failed to copy standard output", "")
  /\ UNCHANGED tmuxProc

\* main.rs:118
MainOpenRet ==
  MainOpen("open_ret", "wait_ret", "ret", "failed to open exit code FIFO")

MainOpenRetDone ==
  /\ MainOpened("wait_ret", "ret", "read_ret")
  /\ UNCHANGED <<inputVars, tmux, tmuxProc, childEnv, copyBuf,
                 stdout, retBuf, termVars, fsVars, threadVars, paneVars>>

\* main.rs:119-122, read_to_end: one read of `ret`
MainReadRet ==
  /\ Running /\ pc = "read_ret"
  /\ buf["ret"] # <<>>
  /\ retBuf' = retBuf \o buf["ret"]
  /\ buf' = [buf EXCEPT !["ret"] = <<>>]
  /\ UNCHANGED <<inputVars, pc, tmux, tmuxProc, childEnv, dOpenOk, copyBuf,
                 stdout, termVars, dirExists, exists, rd, wr, opened,
                 threadVars, paneVars>>

\* main.rs:119-128: read_to_end sees end-of-stream; decode, parse, exit
MainReadRetEnd ==
  /\ Running /\ pc = "read_ret"
  /\ buf["ret"] = <<>> /\ wr["ret"] = {}
  /\ LET text == from_utf8(retBuf)
     IN  IF text = None
         THEN Fatal("failed to parse reported exit code: invalid string", "")
              /\ UNCHANGED <<stdout, tmuxProc>>
         ELSE LET rc == parse_i32(trim_end(text))
              IN  IF rc = ParseErr
                  THEN Fatal("failed to parse reported exit code", "")
                       /\ UNCHANGED <<stdout, tmuxProc>>
                  ELSE Exit(rc[1])

\* main.rs:120-122: the read fails
MainReadRetFail ==
  /\ Running /\ pc = "read_ret"
  /\ Fatal("failed to read from exit code FIFO", "")
  /\ UNCHANGED <<stdout, tmuxProc>>

(***************************************************************************)
(* The input-copy thread (main.rs:107-111).  It owns fifo_in, which is     *)
(* closed when the closure returns.                                        *)
(***************************************************************************)
\* io::copy: one read of standard input
ThreadRead ==
  /\ Running /\ tpc = "copy"
  /\ tBuf = <<>> /\ stdinPos < Len(stdinData)
  /\ \E k \in 1..Min(ChunkMax, Len(stdinData) - stdinPos) :
       /\ tBuf' = SubSeq(stdinData, stdinPos + 1, stdinPos + k)
       /\ stdinPos' = stdinPos + k
  /\ UNCHANGED <<inputVars, mainVars, termVars, fsVars, tpc, inWritten,
                 threadErr, paneVars>>

\* mutant: a short write is taken for a whole one, the rest is dropped
WriteRestDropped(chunk, n) == <<>>

\* write_all: what is left of the chunk after a write of n bytes
WriteRest(chunk, n) == SubSeq(chunk, n + 1, Len(chunk))

\* io::copy: write() moves what fits into `in`
ThreadWrite ==
  /\ Running /\ tpc = "copy"
  /\ tBuf # <<>> /\ rd["in"] # {} /\ Room("in") > 0
  /\ LET n == Min(Len(tBuf), Room("in"))
     IN  /\ buf' = [buf EXCEPT !["in"] = @ \o SubSeq(tBuf, 1, n)]
         /\ inWritten' = inWritten \o SubSeq(tBuf, 1, n)
         /\ tBuf' = WriteRest(tBuf, n)
  /\ UNCHANGED <<inputVars, mainVars, termVars, dirExists, exists, rd, wr,
                 opened, tpc, stdinPos, threadErr, paneVars>>

\* the closure returns: fifo_in is dropped
ThreadReturn(err) ==
  /\ tpc' = "done"
  /\ threadErr' = err
  /\ wr' = DropEnd(wr, "in", "driver")
  /\ UNCHANGED <<inputVars, mainVars, termVars, dirExists, exists, rd, buf,
                 opened, tBuf, stdinPos, inWritten, paneVars>>

\* io::copy: write() to `in` fails, no process holds its read end (EPIPE)
ThreadWriteEpipe ==
  /\ Running /\ tpc = "copy"
  /\ tBuf # <<>> /\ rd["in"] = {}
  /\ ThreadReturn(TRUE)

\* mutant: the error of the input copy ends the process
ThreadIoErrorAborts ==
  /\ Running /\ tpc = "copy"
  /\ tpc' = "done" /\ threadErr' = TRUE
  /\ termKind' = "fatal" /\ exitCode' = FailureStatus
  /\ errCtx' = "failed to pipe standard input" /\ errPath' = ""
  /\ pc' = "done"
  /\ dirExists' = TempDirDrop(dirExists, exists)[1]
  /\ exists' = TempDirDrop(dirExists, exists)[2]
  /\ rd' = ProcessTeardown(rd)
  /\ wr' = ProcessTeardown(wr)
  /\ UNCHANGED <<inputVars, tmux, tmuxProc, childEnv, dOpenOk, copyBuf,
                 stdout, retBuf, buf, opened, tBuf, stdinPos, inWritten,
                 paneVars>>

\* io::copy: some other read or write error; main.rs:109 reports it
ThreadIoError ==
  /\ Running /\ tpc = "copy"
  /\ ThreadReturn(TRUE)

\* io::copy: standard input is at end-of-input, the copy returns Ok
ThreadEof ==
  /\ Running /\ tpc = "copy"
  /\ tBuf = <<>> /\ stdinPos = Len(stdinData) /\ stdinCloses
  /\ ThreadReturn(FALSE)

(***************************************************************************)
(* The pane: tmux runs, in a shell, the command of main.rs:81-86           *)
(*   fzy --lines 50 $* < in > out 2>&1 && echo 0 > ret || echo 1 > ret     *)
(* The shell opens a command's redirections left to right before it runs   *)
(* the command; a redirection that cannot be opened fails the command.     *)
(***************************************************************************)
\* the exit statuses the picker may end with
PickerStatuses == {0, 1, 2}
\* the status of a command whose redirection failed
RedirectFailed == 1
\* the status of a process killed by SIGPIPE
Sigpipe == 141

\* the text `echo m` writes: the digit and a newline
Marker(m) == <<48 + m, 10>>

\* mutant: the markers are swapped
AfterPickerSwapped(status) == IF status = 0 THEN "echo1" ELSE "echo0"

\* `picker && echo 0 ... || echo 1 ...`: what runs after the picker command
AfterPicker(status) == IF status = 0 THEN "echo0" ELSE "echo1"

\* `... && echo 0 > ret || echo 1 > ret`: what runs after `echo 0 > ret`
AfterEcho0(ok) == IF ok THEN "done" ELSE "echo1"

PaneCloseAll(ends) == [f \in Fifos |-> ends[f] \ {"pane"}]

\* tmux opens the pane and its shell starts the command
PaneStart ==
  /\ ppc = "launched"
  /\ ppc' = "p_open_in"
  /\ UNCHANGED <<inputVars, mainVars, termVars, fsVars, threadVars, pOpenOk,
                 paneIn, paneOut, pickerStatus, markers, peerPos>>

\* the shell enters open() for a redirection of the picker command
PaneOpen(at, wait, s) ==
  /\ ppc = at
  /\ LET o == PaneOpens(s)
     IN  IF o.fifo \in exists
         THEN /\ rd' = IF o.mode = "r" THEN AddEnd(rd, o.fifo, "pane") ELSE rd
              /\ wr' = IF o.mode = "w" THEN AddEnd(wr, o.fifo, "pane") ELSE wr
              /\ opened' = opened \cup {<<"pane", o.fifo, o.mode>>}
              /\ pOpenOk' = PeerPresent(o.fifo, o.mode)
              /\ dOpenOk' = (dOpenOk \/ MainWaits(o.fifo, Other(o.mode)))
              /\ ppc' = wait
              /\ UNCHANGED pickerStatus
         ELSE /\ rd' = PaneCloseAll(rd)
              /\ wr' = PaneCloseAll(wr)
              /\ pickerStatus' = RedirectFailed
              /\ ppc' = AfterPicker(RedirectFailed)
              /\ UNCHANGED <<opened, pOpenOk, dOpenOk>>
  /\ UNCHANGED <<inputVars, pc, tmux, tmuxProc, childEnv, copyBuf, stdout,
                 retBuf, termVars, dirExists, exists, buf, threadVars, paneIn,
                 paneOut, markers, peerPos>>

\* open() returns in the shell
PaneOpened(wait, s, next) ==
  /\ ppc = wait
  /\ pOpenOk \/ PeerPresent(PaneOpens(s).fifo, PaneOpens(s).mode)
  /\ pOpenOk' = FALSE
  /\ ppc' = next
  /\ UNCHANGED <<inputVars, mainVars, termVars, fsVars, threadVars, paneIn,
                 paneOut, pickerStatus, markers, peerPos>>

PaneOpenIn == PaneOpen("p_open_in", "p_wait_in", "in")
PaneOpenInDone == PaneOpened("p_wait_in", "in", "p_open_out")
PaneOpenOut == PaneOpen("p_open_out", "p_wait_out", "out")
PaneOpenOutDone == PaneOpened("p_wait_out", "out", "picker")

\* the picker reads what is in `in`
PickerRead ==
  /\ ppc = "picker"
  /\ buf["in"] # <<>>
  /\ paneIn' = paneIn \o buf["in"]
  /\ buf' = [buf EXCEPT !["in"] = <<>>]
  /\ UNCHANGED <<inputVars, mainVars, termVars, dirExists, exists, rd, wr,
                 opened, threadVars, ppc, pOpenOk, paneOut, pickerStatus,
                 markers, peerPos>>

\* the picker writes a byte to `out` (its stdout and stderr)
PickerWrite ==
  /\ ppc = "picker"
  /\ Len(paneOut) < MaxOut /\ rd["out"] # {} /\ Room("out") > 0
  /\ LET b == 100 + Len(paneOut) + 1
     IN  /\ buf' = [buf EXCEPT !["out"] = Append(@, b)]
         /\ paneOut' = Append(paneOut, b)
  /\ UNCHANGED <<inputVars, mainVars, termVars, dirExists, exists, rd, wr,
                 opened, threadVars, ppc, pOpenOk, paneIn, pickerStatus,
                 markers, peerPos>>

\* the picker command ends with status st: its descriptors are closed
PickerEnds(st) ==
  /\ pickerStatus' = st
  /\ rd' = PaneCloseAll(rd)
  /\ wr' = PaneCloseAll(wr)
  /\ ppc' = AfterPicker(st)
  /\ UNCHANGED <<inputVars, mainVars, termVars, dirExists, exists, buf,
                 opened, threadVars, pOpenOk, paneIn, paneOut, markers, peerPos>>

\* the picker writes to `out` when no process holds its read end
PickerSigpipe ==
  /\ ppc = "picker"
  /\ Len(paneOut) < MaxOut /\ rd["out"] = {}
  /\ PickerEnds(Sigpipe)

\* the picker exits
PickerExit ==
  /\ ppc = "picker"
  /\ \E st \in PickerStatuses : PickerEnds(st)

\* `echo m > ret`: the shell enters open() of `ret`
PaneEchoOpen(at, wait, onFail) ==
  /\ ppc = at
  /\ IF "ret" \in exists
     THEN /\ wr' = AddEnd(wr, "ret", "pane")
          /\ opened' = opened \cup {<<"pane", "ret", "w">>}
          /\ pOpenOk' = PeerPresent("ret", "w")
          /\ dOpenOk' = (dOpenOk \/ MainWaits("ret", "r"))
          /\ ppc' = wait
     ELSE /\ ppc' = onFail
          /\ UNCHANGED <<wr, opened, pOpenOk, dOpenOk>>
  /\ UNCHANGED <<inputVars, pc, tmux, tmuxProc, childEnv, copyBuf, stdout,
                 retBuf, termVars, dirExists, exists, rd, buf, threadVars,
                 paneIn, paneOut, pickerStatus, markers, peerPos>>

\* `echo m > ret`: the marker is written and `ret` closed; with no reader
\* the write fails, or its SIGPIPE ends the shell
PaneEchoWrite(at, m, onFail) ==
  /\ ppc = at
  /\ wr' = DropEnd(wr, "ret", "pane")
  /\ IF rd["ret"] # {}
     THEN /\ buf' = [buf EXCEPT !["ret"] = @ \o Marker(m)]
          /\ markers' = Append(markers, m)
          /\ ppc' = "done"
     ELSE /\ ppc' \in {onFail, "done"}
          /\ UNCHANGED <<buf, markers>>
  /\ UNCHANGED <<inputVars, mainVars, termVars, dirExists, exists, rd, opened,
                 threadVars, pOpenOk, paneIn, paneOut, pickerStatus, peerPos>>

\* mutant: `;` in place of `||`, `echo 1 > ret` runs after a written 0
PaneEcho0WriteThenEcho1 ==
  /\ ppc = "echo0_write"
  /\ wr' = DropEnd(wr, "ret", "pane")
  /\ IF rd["ret"] # {}
     THEN /\ buf' = [buf EXCEPT !["ret"] = @ \o Marker(0)]
          /\ markers' = Append(markers, 0)
     ELSE UNCHANGED <<buf, markers>>
  /\ ppc' = "echo1"
  /\ UNCHANGED <<inputVars, mainVars, termVars, dirExists, exists, rd, opened,
                 threadVars, pOpenOk, paneIn, paneOut, pickerStatus, peerPos>>

PaneEcho0Open == PaneEchoOpen("echo0", "echo0_wait", AfterEcho0(FALSE))
PaneEcho0Opened == PaneOpened("echo0_wait", "ret", "echo0_write")
PaneEcho0Write == PaneEchoWrite("echo0_write", 0, AfterEcho0(FALSE))
PaneEcho1Open == PaneEchoOpen("echo1", "echo1_wait", "done")
PaneEcho1Opened == PaneOpened("echo1_wait", "ret", "echo1_write")
PaneEcho1Write == PaneEchoWrite("echo1_write", 1, "done")

(***************************************************************************)
(* A stand-in for the pane on `ret`: some process opens the FIFO for       *)
(* writing, writes retScript in one or more writes, and closes it.  It     *)
(* gives read_to_end of main.rs:118-122 every content to decode.           *)
(***************************************************************************)
PeerOpen == PaneEchoOpen("peer_open", "peer_wait", "done")
PeerOpened == PaneOpened("peer_wait", "ret", "peer_write")

PeerWrite ==
  /\ ppc = "peer_write"
  /\ peerPos < Len(retScript) /\ rd["ret"] # {}
  /\ \E k \in 1..(Len(retScript) - peerPos) :
       /\ buf' = [buf EXCEPT !["ret"] =
                    @ \o SubSeq(retScript, peerPos + 1, peerPos + k)]
       /\ peerPos' = peerPos + k
  /\ UNCHANGED <<inputVars, mainVars, termVars, dirExists, exists, rd, wr,
                 opened, threadVars, ppc, pOpenOk, paneIn, paneOut,
                 pickerStatus, markers>>

PeerClose ==
  /\ ppc = "peer_write"
  /\ peerPos = Len(retScript) \/ rd["ret"] = {}
  /\ wr' = DropEnd(wr, "ret", "pane")
  /\ ppc' = "done"
  /\ UNCHANGED <<inputVars, mainVars, termVars, dirExists, exists, rd, buf,
                 opened, threadVars, pOpenOk, paneIn, paneOut, pickerStatus,
                 markers, peerPos>>

(***************************************************************************)
(* The whole system.                                                       *)
(***************************************************************************)
MainNext ==
  \/ MainReadEnv \/ MainTempDir \/ MainMakeFifo \/ MainSpawnTmux
  \/ MainOpenIn \/ MainOpenInDone \/ MainOpenOut \/ MainOpenOutDone
  \/ MainCopyRead \/ MainCopyWrite \/ MainCopyEof \/ MainCopyFail
  \/ MainOpenRet \/ MainOpenRetDone
  \/ MainReadRet \/ MainReadRetEnd \/ MainReadRetFail

ThreadNext ==
  ThreadRead \/ ThreadWrite \/ ThreadWriteEpipe \/ ThreadIoError \/ ThreadEof

PaneNext ==
  \/ PaneStart \/ PaneOpenIn \/ PaneOpenInDone \/ PaneOpenOut
  \/ PaneOpenOutDone \/ PickerRead \/ PickerWrite \/ PickerSigpipe
  \/ PickerExit
  \/ PaneEcho0Open \/ PaneEcho0Opened \/ PaneEcho0Write
  \/ PaneEcho1Open \/ PaneEcho1Opened \/ PaneEcho1Write

Next == MainNext \/ ThreadNext \/ PaneNext

Spec == Init /\ [][Next]_vars

(***************************************************************************)
(* The whole system under the scheduling of the operating system: a step   *)
(* of main that can be taken is taken (every step but an I/O error of a    *)
(* read or write, which need not happen), and so is a step of the pane:    *)
(* the command runs once tmux was started and the picker ends.  Nothing is *)
(* assumed of the input-copy thread, which may stay blocked on standard    *)
(* input for ever.                                                         *)
(***************************************************************************)
MainStep ==
  \/ MainReadEnv \/ MainTempDir \/ MainMakeFifo \/ MainSpawnTmux
  \/ MainOpenIn \/ MainOpenInDone \/ MainOpenOut \/ MainOpenOutDone
  \/ MainCopyRead \/ MainCopyWrite \/ MainCopyEof
  \/ MainOpenRet \/ MainOpenRetDone
  \/ MainReadRet \/ MainReadRetEnd

InitFair == Init /\ Len(stdinData) <= MaxStdinFair

SpecFair == InitFair /\ [][Next]_vars /\ WF_vars(MainStep) /\ WF_vars(PaneNext)

(***************************************************************************)
(* Exit-status retrieval over every content of `ret`.  InitRet is the      *)
(* state Spec reaches when the copy of `out` has seen end-of-stream (empty *)
(* standard input, a picker that wrote nothing and exited), with the       *)
(* stand-in in place of the shell's echo.                                  *)
(***************************************************************************)
\* bytes of a `ret` content: \n, space, + - 0 1 3 a, and 0xA0 0xC2 0xFF
RetAlphabet == {10, 32, 43, 45, 48, 49, 51, 97, 160, 194, 255}
\* "2147483647", "2147483648", "-2147483648", "-2147483649"
RetBoundary ==
  {<<50, 49, 52, 55, 52, 56, 51, 54, 52, 55>>,
   <<50, 49, 52, 55, 52, 56, 51, 54, 52, 56>>,
   <<45, 50, 49, 52, 55, 52, 56, 51, 54, 52, 56>>,
   <<45, 50, 49, 52, 55, 52, 56, 51, 54, 52, 57>>}
RetContents == Strings(RetAlphabet, MaxRetLen) \cup RetBoundary

InitRet ==
  /\ environ = {<<"TMUX", SampleToken>>} \cup OtherVars
  /\ stdinData = <<>> /\ stdinCloses = TRUE
  /\ retScript \in RetContents
  /\ pc = "open_ret" /\ tmux = filter_tmux(SampleToken)
  /\ tmuxProc = "running" /\ childEnv = CommandEnv(environ, tmux)
  /\ dOpenOk = FALSE /\ copyBuf = <<>> /\ stdout = <<>> /\ retBuf = <<>>
  /\ termKind = "none" /\ exitCode = -1 /\ errCtx = "" /\ errPath = ""
  /\ dirExists = TRUE /\ exists = Fifos
  /\ rd = [f \in Fifos |-> IF f = "out" THEN {"driver"} ELSE {}]
  /\ wr = [f \in Fifos |-> {}]
  /\ buf = [f \in Fifos |-> <<>>]
  /\ opened = {<<"driver", "in", "w">>, <<"pane", "in", "r">>,
               <<"pane", "out", "w">>, <<"driver", "out", "r">>}
  /\ tpc = "done" /\ tBuf = <<>> /\ stdinPos = 0 /\ inWritten = <<>>
  /\ threadErr = FALSE
  /\ ppc = "peer_open" /\ pOpenOk = FALSE /\ paneIn = <<>> /\ paneOut = <<>>
  /\ pickerStatus = 0 /\ markers = <<>> /\ peerPos = 0

NextRet ==
  \/ MainOpenRet \/ MainOpenRetDone
  \/ MainReadRet \/ MainReadRetEnd \/ MainReadRetFail
  \/ PeerOpen \/ PeerOpened \/ PeerWrite \/ PeerClose

SpecRet == InitRet /\ [][NextRet]_vars

(***************************************************************************)
(* Vocabulary of the properties.                                           *)
(***************************************************************************)
IsPrefix(a, b) == Len(a) <= Len(b) /\ a = SubSeq(b, 1, Len(a))
Terminated == termKind # "none"
RawTmux == var_os(environ, "TMUX")

CommasIn(t) == {i \in 1..Len(t) : t[i] = Comma}
\* the position of the second comma of a string that has one
SecondComma(t) ==
  CHOOSE i \in CommasIn(t) : Cardinality({j \in CommasIn(t) : j < i}) = 1

\* the comma-delimited fields of a string
RECURSIVE Fields(_)
Fields(t) ==
  IF CommasIn(t) = {} THEN <<t>>
  ELSE LET i == CHOOSE c \in CommasIn(t) : \A d \in CommasIn(t) : c <= d
       IN  <<SubSeq(t, 1, i - 1)>> \o Fields(SubSeq(t, i + 1, Len(t)))
\* the first two fields, joined as they were
FirstTwoFields(t) ==
  IF Len(Fields(t)) = 1 THEN t
  ELSE Fields(t)[1] \o <<Comma>> \o Fields(t)[2]

\* the errors of the steps before the pane is launched
PreLaunchErrors ==
  {"TMUX variable not found", "failed to create temporary directory",
   "failed to create FIFO", "failed to execute tmux command"}
\* the errors of decoding what was read from `ret`
DecodeErrors ==
  {"failed to parse reported exit code: invalid string",
   "failed to parse reported exit code"}
\* the errors of exit-status retrieval
RetErrors ==
  DecodeErrors \cup {"failed to open exit code FIFO",
                     "failed to read from exit code FIFO"}
\* the read of `ret` ran to end-of-stream: the driver exited with a code, or
\* failed decoding what it read
ReadCompleted == termKind = "exit" \/ (termKind = "fatal" /\ errCtx \in DecodeErrors)
\* the copy of `out` returned Ok
CopyCompleted ==
  \/ pc \in {"open_ret", "wait_ret", "read_ret"}
  \/ termKind = "exit"
  \/ (termKind = "fatal" /\ errCtx \in RetErrors)

\* a text with its trailing whitespace removed
Trimmed(t) ==
  LET keep == {i \in 1..Len(t) : ~IsWhitespace(t[i])}
      last == IF keep = {} THEN 0 ELSE CHOOSE i \in keep : \A j \in keep : j <= i
  IN  SubSeq(t, 1, last)
Signed(t) == t # <<>> /\ t[1] \in {43, 45}
DigitsOf(t) == IF Signed(t) THEN Tail(t) ELSE t
\* an optional sign and one or more decimal digits
IsIntText(t) ==
  DigitsOf(t) # <<>> /\ \A i \in 1..Len(DigitsOf(t)) : DigitsOf(t)[i] \in 48..57
Negative(t) == t[1] = 45
\* the digits without leading zeros
Significant(d) ==
  LET nz == {i \in 1..Len(d) : d[i] # 48}
  IN  IF nz = {} THEN <<>>
      ELSE SubSeq(d, CHOOSE i \in nz : \A j \in nz : i <= j, Len(d))
LexLeq(a, b) ==
  a = b \/ \E i \in 1..Len(a) : a[i] < b[i] /\ \A j \in 1..(i - 1) : a[j] = b[j]
\* the integer of an integer text lies in -2^31 .. 2^31 - 1
FitsI32(t) ==
  LET d == Significant(DigitsOf(t))
      top == IF Negative(t) THEN <<50, 49, 52, 55, 52, 56, 51, 54, 52, 56>>
             ELSE <<50, 49, 52, 55, 52, 56, 51, 54, 52, 55>>
  IN  Len(d) < 10 \/ (Len(d) = 10 /\ LexLeq(d, top))
\* the magnitude of a string of digits, modulo m
RECURSIVE MagnitudeMod(_, _)
MagnitudeMod(d, m) ==
  IF d = <<>> THEN 0
  ELSE (MagnitudeMod(SubSeq(d, 1, Len(d) - 1), m) * 10 + (d[Len(d)] - 48)) % m
\* the integer of an integer text, modulo 256, in 0..255
ValueMod256(t) ==
  LET v == MagnitudeMod(DigitsOf(t), 256)
  IN  IF Negative(t) THEN (256 - v) % 256 ELSE v
\* the integer of an integer text of at most nine significant digits
SmallValue(t) ==
  LET v == MagnitudeMod(Significant(DigitsOf(t)), 1000000000)
  IN  IF Negative(t) THEN 0 - v ELSE v
\* the text read from `ret`, trimmed; None when it is not UTF-8
RetText == IF from_utf8(retBuf) = None THEN None ELSE Trimmed(from_utf8(retBuf))
RetIsInt == RetText # None /\ IsIntText(RetText)

(***************************************************************************)
(* The properties.                                                         *)
(***************************************************************************)

\* C1: when the pane-side command has run and the driver has read `ret` to
\* the end, the driver exits through exit(rc) with code 0 if the picker
\* command succeeded and 1 if it failed, whatever the non-zero status was
\* and whether or not anything was written to `out`.
C1_ExitCodeCollapsesPickerStatus ==
  ReadCompleted =>
    /\ termKind = "exit"
    /\ pickerStatus # -1
    /\ exitCode = (IF pickerStatus = 0 THEN 0 ELSE 1)

\* a picker that wrote nothing and exited with status 2: the driver exits 1
C1_Witness ==
  termKind = "exit" /\ pickerStatus = 2 /\ paneOut = <<>> /\ exitCode = 1

\* C2 (as stated): whenever the trimmed content of `ret` is an integer text
\* of value n, the driver terminates with exit code exactly n.
C2_ExitCodeIsExactlyN ==
  (ReadCompleted /\ RetIsInt) =>
    /\ termKind = "exit"
    /\ Len(Significant(DigitsOf(RetText))) <= 9
    /\ exitCode = SmallValue(RetText)

\* C2 (amended): whenever the trimmed content of `ret` is an integer text
\* whose value n fits an i32, the driver ends through exit(n): its exit
\* status is n modulo 256 (n itself when 0 <= n <= 255), and no step of
\* the driver follows.
C2_ExitCodeIsLowByteOfN ==
  (ReadCompleted /\ RetIsInt /\ FitsI32(RetText)) =>
    /\ termKind = "exit"
    /\ exitCode = ValueMod256(RetText)
    /\ pc = "done"
    /\ ~ENABLED (MainNext \/ ThreadNext)

\* "-1\n" was read: the driver called exit(-1) and ended with status 255
C2_Witness ==
  /\ termKind = "exit" /\ retBuf = <<45, 49, 10>> /\ exitCode = 255

\* C3: in every terminal state of the driver the temporary directory and
\* its FIFOs no longer exist.
C3_TerminalStateHasNoDirectory ==
  Terminated => (~dirExists /\ exists = {})

\* C4: what the driver has written to standard output is a prefix of what
\* the picker has written to `out`, and the two are equal once the copy of
\* `out` has returned.
C4_StdoutFollowsOut ==
  /\ IsPrefix(stdout, paneOut)
  /\ CopyCompleted => stdout = paneOut

\* the copy returned after the picker wrote two bytes
C4_Witness == CopyCompleted /\ Len(paneOut) >= 2 /\ stdout = paneOut

\* C5: what has been written to `in` is a prefix of standard input (and what
\* the picker has read a prefix of that), nothing is written before the
\* driver's open of `in` for writing has returned, and when the input copy
\* returns Ok all of standard input has been written and the driver's
\* write end is closed.
C5_InFollowsStdin ==
  /\ IsPrefix(inWritten, stdinData)
  /\ IsPrefix(paneIn, inWritten)
  /\ (inWritten # <<>> \/ buf["in"] # <<>>) =>
       (/\ <<"driver", "in", "w">> \in opened
        /\ pc \notin {"read_env", "mk_tmp", "mk_fifo", "spawn", "open_in",
                      "wait_in"})
  /\ (tpc = "done" /\ ~threadErr) =>
       (inWritten = stdinData /\ stdinCloses /\ "driver" \notin wr["in"])

\* the copy returned Ok with two bytes of input, all read by the picker
C5_Witness ==
  /\ tpc = "done" /\ ~threadErr
  /\ Len(stdinData) >= 2 /\ paneIn = stdinData

\* C6: with k the number of commas of the raw TMUX value, the filtered value
\* is the raw value when k < 2 and the prefix that ends right before the
\* second comma when k >= 2.
C6_FilterCutsAtSecondComma ==
  (RawTmux # None /\ pc # "read_env") =>
    IF Cardinality(CommasIn(RawTmux)) < 2
    THEN tmux = RawTmux
    ELSE tmux = SubSeq(RawTmux, 1, SecondComma(RawTmux) - 1)

\* a raw value with three commas was cut
C6_Witness ==
  /\ pc # "read_env" /\ RawTmux # None
  /\ Cardinality(CommasIn(RawTmux)) = 3
  /\ Len(tmux) < Len(RawTmux)

\* C7: when what was read from `ret` is empty, is not UTF-8, or is not, once
\* trimmed, an integer text that fits an i32, the driver ends with a fatal
\* error and the generic non-zero status: never with 0, and with no step
\* left to take.
C7_MalformedRetIsFatal ==
  (ReadCompleted /\ (retBuf = <<>> \/ ~RetIsInt \/ ~FitsI32(RetText))) =>
    /\ termKind = "fatal"
    /\ exitCode = GenericFailure
    /\ exitCode # 0
    /\ pc = "done"
    /\ ~ENABLED (MainNext \/ ThreadNext)

\* "a\n" was read and the driver failed
C7_Witness ==
  termKind = "fatal" /\ retBuf = <<97, 10>> /\ errCtx \in DecodeErrors

\* C8: a failure before the pane is launched ends the driver with the
\* generic non-zero status and nothing later happens: no FIFO is opened, no
\* thread and no pane exist, nothing is written, and tmux is not invoked
\* unless it was its spawn that failed.  A missing TMUX fails the first
\* step.
C8_PreLaunchFailureStopsEverything ==
  /\ (RawTmux = None /\ pc # "read_env") =>
       (termKind = "fatal" /\ errCtx = "TMUX variable not found")
  /\ (termKind = "fatal" /\ errCtx \in PreLaunchErrors) =>
       /\ exitCode = GenericFailure /\ exitCode # 0
       /\ pc = "done"
       /\ opened = {} /\ tpc = "none" /\ ppc = "none" /\ childEnv = {}
       /\ stdout = <<>>
       /\ tmuxProc = (IF errCtx = "failed to execute tmux command"
                      THEN "failed" ELSE "none")
       /\ ~ENABLED Next

\* the third mkfifo failed
C8_Witness ==
  termKind = "fatal" /\ errCtx = "failed to create FIFO" /\ errPath = "ret"

\* the codes the driver propagates for the two markers of the pane command
PropagatedCodes == {ExitStatus(parse_i32(trim_end(from_utf8(Marker(m))))[1]) : m \in {0, 1}}

\* C9 (as stated): the status of a fatal error is non-zero and is none of
\* the exit codes the driver propagates for the picker.
C9_FatalStatusIsDistinct ==
  termKind = "fatal" => (exitCode # 0 /\ exitCode \notin PropagatedCodes)

\* C9 (amended): a fatal error ends the driver with status 1, which differs
\* from the code 0 of a successful picker but is the code propagated for a
\* failed picker; the propagated codes are 0 and 1, 0 only for success.
C9_FatalStatusIsOne ==
  /\ termKind = "fatal" => (exitCode = 1 /\ exitCode # 0)
  /\ termKind = "exit" =>
       (exitCode \in PropagatedCodes /\ (exitCode = 0 <=> pickerStatus = 0))
  /\ PropagatedCodes = {0, 1}

\* the copy of `out` failed after a picker had exited with 0
C9_Witness ==
  /\ termKind = "fatal" /\ errCtx = "failed to copy standard output"
  /\ pickerStatus = 0 /\ exitCode = 1

\* C10: the environment given to tmux is exactly TMUX, set to the first two
\* comma-delimited fields of the raw value: a function of those fields
\* alone, so environments that agree on them give the same child
\* environment.
C10_ChildEnvIsFilteredTmuxOnly ==
  tmuxProc = "running" =>
    /\ childEnv = {<<"TMUX", FirstTwoFields(RawTmux)>>}
    /\ \A p \in childEnv : p[1] = "TMUX"

\* tmux was spawned from an environment with other variables and a raw
\* value of three fields
C10_Witness ==
  /\ tmuxProc = "running"
  /\ OtherVars \subseteq environ
  /\ Cardinality(CommasIn(RawTmux)) = 2

\* the errors of opening `out` and of copying it to standard output
OutErrors == {"failed to open stdout FIFO", "failed to copy standard output"}
\* read() of `out` has answered end-of-stream: nothing buffered, no writer
OutAtEof == copyBuf = <<>> /\ buf["out"] = <<>> /\ wr["out"] = {}

\* C13: when the open or the copy of `out` fails the driver ends with the
\* generic non-zero status of a fatal error, having never opened or read
\* `ret`: no code of the pane is propagated (the driver does not end through
\* exit(rc)), no step of main is left, and main moves on to `ret` only from
\* an end-of-stream of `out`, never from a failure.
C13_OutFailureSkipsRet ==
  /\ [](( termKind = "fatal" /\ errCtx \in OutErrors) =>
         /\ exitCode = GenericFailure /\ exitCode # 0
         /\ <<"driver", "ret", "r">> \notin opened
         /\ "driver" \notin rd["ret"]
         /\ retBuf = <<>> /\ markers = <<>>
         /\ pc = "done"
         /\ ~ENABLED MainNext)
  /\ [][(pc = "copy_out" /\ pc' # "copy_out") =>
         \/ (pc' = "open_ret" /\ OutAtEof /\ termKind' = "none")
         \/ (pc' = "done" /\ termKind' = "fatal" /\ errCtx' \in OutErrors)]_vars

\* the copy failed after one byte of two had reached standard output, with
\* the picker already ended
C13_Witness ==
  /\ termKind = "fatal" /\ errCtx = "failed to copy standard output"
  /\ Len(stdout) = 1 /\ Len(paneOut) = 2 /\ pickerStatus # -1
  /\ <<"driver", "ret", "r">> \notin opened

\* C17: when a mkfifo fails the error names the path the loop is at, the
\* FIFOs before it in the order in, out, ret are the ones created and none
\* after it is, the directory and the FIFOs created are removed in the
\* same step, and nothing is created afterwards.
C17_FifoFailureNamesPathAndCleansUp ==
  [][/\ (errCtx' = "failed to create FIFO" /\ errCtx # errCtx') =>
          /\ \E i \in 1..Len(FifoOrder) :
               /\ errPath' = FifoOrder[i]
               /\ exists = {FifoOrder[j] : j \in 1..(i - 1)}
          /\ dirExists /\ ~dirExists' /\ exists' = {}
          /\ termKind' = "fatal" /\ exitCode' = GenericFailure
          /\ tmuxProc' = "none" /\ ppc' = "none"
     /\ errCtx = "failed to create FIFO" =>
          (exists' = {} /\ ~dirExists' /\ errPath' = errPath)]_vars

\* the mkfifo of `out` failed after `in` had been created: both are gone
C17_Witness ==
  /\ termKind = "fatal" /\ errCtx = "failed to create FIFO"
  /\ errPath = "out" /\ ~dirExists /\ exists = {}

\* the party that reads, and the party that writes, each FIFO
ReaderOf(f) == IF f = "in" THEN "pane" ELSE "driver"
WriterOf(f) == IF f = "in" THEN "driver" ELSE "pane"

\* C19: each end of each FIFO is held by at most one party, and only ever
\* by the same one: the driver writes `in` and reads `out` and `ret`, the
\* pane-side command reads `in` and writes `out` and `ret`.
C19_OneReaderOneWriter ==
  /\ \A f \in Fifos :
       /\ rd[f] \subseteq {ReaderOf(f)}
       /\ wr[f] \subseteq {WriterOf(f)}
  /\ \A o \in opened :
       o[1] = (IF o[3] = "r" THEN ReaderOf(o[2]) ELSE WriterOf(o[2]))

\* every end of every FIFO has been opened, and by both parties
C19_Witness ==
  /\ {<<o[2], o[3]>> : o \in opened} = Fifos \X {"r", "w"}
  /\ {o[1] : o \in opened} = {"driver", "pane"}

\* C20: filtering a filtered value changes nothing, and a filtered value
\* has at most one comma.
C20_FilterIsIdempotent ==
  /\ RawTmux # None =>
       /\ filter_tmux(filter_tmux(RawTmux)) = filter_tmux(RawTmux)
       /\ Cardinality(CommasIn(filter_tmux(RawTmux))) < 2
  /\ (RawTmux # None /\ pc # "read_env") =>
       (filter_tmux(tmux) = tmux /\ Cardinality(CommasIn(tmux)) < 2)

\* a raw value that ends in its second comma was filtered
C20_Witness ==
  /\ pc # "read_env" /\ RawTmux # None
  /\ Cardinality(CommasIn(RawTmux)) = 2 /\ RawTmux[Len(RawTmux)] = Comma
  /\ filter_tmux(tmux) = tmux /\ Cardinality(CommasIn(tmux)) = 1

\* the marker the pane command writes for a picker status
MarkerFor(status) == IF status = 0 THEN 0 ELSE 1

Lifecycle ==
  <<"Init", "EnvironmentResolved", "RendezvousCreated", "PaneLaunched",
    "RelayActive", "ExitCodeReceived", "Terminated">>
\* the lifecycle state of the driver: before TMUX is read, before the FIFOs
\* are all made, before tmux is spawned, before `in` is open and the copy
\* thread started, while `out` is opened and copied, while `ret` is opened,
\* read and decoded, and after the process has ended
Stage ==
  IF Terminated THEN "Terminated"
  ELSE CASE pc = "read_env" -> "Init"
         [] pc \in {"mk_tmp", "mk_fifo"} -> "EnvironmentResolved"
         [] pc = "spawn" -> "RendezvousCreated"
         [] pc \in {"open_in", "wait_in"} -> "PaneLaunched"
         [] pc \in {"open_out", "wait_out", "copy_out"} -> "RelayActive"
         [] pc \in {"open_ret", "wait_ret", "read_ret"} -> "ExitCodeReceived"
StageIndex(st) == CHOOSE i \in 1..Len(Lifecycle) : Lifecycle[i] = st
\* the facts of order the lifecycle carries: the three FIFOs exist when
\* tmux is spawned, `in` is opened before `out`, `ret` only after `out` has
\* been copied to its end-of-stream
LaunchAfterFifos == (tmuxProc = "none" /\ tmuxProc' # "none") => exists = Fifos
InBeforeOut == <<"driver", "out", "r">> \in opened => <<"driver", "in", "w">> \in opened
RetAfterOutEof ==
  <<"driver", "ret", "r">> \in opened =>
    /\ <<"driver", "out", "r">> \in opened
    /\ wr["out"] = {} /\ buf["out"] = <<>> /\ stdout = paneOut

\* C15 (as stated): every step of the driver keeps its lifecycle state or
\* moves it to the next one in the order, with the three facts of order.
C15_LifecycleStrictChain ==
  /\ [][StageIndex(Stage') \in {StageIndex(Stage), StageIndex(Stage) + 1}]_vars
  /\ [][LaunchAfterFifos]_vars
  /\ [](InBeforeOut /\ RetAfterOutEof)

\* C15 (amended): every step keeps the lifecycle state, moves it to the
\* next one in the order, or, on a fatal error, moves it from any state
\* straight to Terminated; it never moves backwards, Terminated is final,
\* and the driver ends through exit(rc) only from ExitCodeReceived.  The
\* three FIFOs exist when tmux is spawned, `in` is opened for writing
\* before `out` is opened for reading, and `ret` is opened only after
\* end-of-stream on `out`.
C15_LifecycleChainWithAborts ==
  /\ [][\/ StageIndex(Stage') \in {StageIndex(Stage), StageIndex(Stage) + 1}
        \/ /\ Stage # "Terminated" /\ Stage' = "Terminated"
           /\ termKind' = "fatal"]_vars
  /\ [][(termKind' = "exit" /\ termKind # "exit") =>
          Stage = "ExitCodeReceived"]_vars
  /\ [][LaunchAfterFifos]_vars
  /\ [](InBeforeOut /\ RetAfterOutEof)

\* the driver has gone through every lifecycle state and exited
C15_Witness ==
  /\ Stage = "Terminated" /\ termKind = "exit"
  /\ {<<"driver", "in", "w">>, <<"driver", "out", "r">>,
       <<"driver", "ret", "r">>} \subseteq opened
  /\ stdout # <<>>

\* the driver's main thread is inside a blocking call that cannot return:
\* an open() whose other end has not been opened, or a read() of an empty
\* FIFO whose write end is still held
DriverBlocked ==
  /\ Running
  /\ \/ pc = "wait_in" /\ ~dOpenOk /\ rd["in"] = {}
     \/ pc = "wait_out" /\ ~dOpenOk /\ wr["out"] = {}
     \/ pc = "wait_ret" /\ ~dOpenOk /\ wr["ret"] = {}
     \/ pc = "copy_out" /\ copyBuf = <<>> /\ buf["out"] = <<>> /\ wr["out"] # {}
     \/ pc = "read_ret" /\ buf["ret"] = <<>> /\ wr["ret"] # {}
\* the steps of main in which a blocking call returns without an error
MainReturns ==
  \/ MainOpenInDone \/ MainOpenOutDone \/ MainOpenRetDone
  \/ MainCopyRead \/ MainCopyWrite \/ MainCopyEof
  \/ MainReadRet \/ MainReadRetEnd
\* the steps in which a blocked read() returns an I/O error
MainReadErrors == MainCopyFail \/ MainReadRetFail

\* C16: while the main thread is blocked in an open() or a read() of a FIFO
\* the driver has not terminated and none of its calls can return; it
\* leaves the blocked call only in a step of the pane-side command (the
\* peer opens, writes or closes) or when the read itself fails.  No step of
\* the driver or of its thread ends the wait, so without the peer it lasts
\* forever.
C16_BlockedUntilPeerActs ==
  /\ [](DriverBlocked => (~Terminated /\ ~ENABLED MainReturns))
  /\ [][(DriverBlocked /\ ~DriverBlocked') =>
          (PaneNext \/ MainReadErrors)]_vars

\* tmux was spawned, the pane-side command has opened nothing, and the
\* driver is blocked in the open of `in`
C16_Witness ==
  /\ DriverBlocked /\ pc = "wait_in"
  /\ tmuxProc = "running" /\ ppc = "launched" /\ opened = {<<"driver", "in", "w">>}

\* where main is inside a blocking open(), and where it is when that returns
WaitStages == {"wait_in", "wait_out", "wait_ret"}
AfterWait(w) ==
  CASE w = "wait_in" -> "open_out" [] w = "wait_out" -> "copy_out"
    [] w = "wait_ret" -> "read_ret"

\* C18: under fair scheduling of main and of the pane-side command, once
\* tmux has been spawned the driver reaches a terminated state, whatever the
\* input-copy thread does; main leaves a blocking open() only by its
\* return, and is never terminated inside one, so every open it enters
\* returns (the peer opens the other end: both sides open `in`, then `out`,
\* then `ret`).
C18_HandshakeCompletes ==
  /\ [][(pc \in WaitStages) => (pc' \in {pc, AfterWait(pc)})]_vars
  /\ [](pc \in WaitStages => (Running /\ tmuxProc = "running"))
  /\ (tmuxProc = "running") ~> Terminated

\* both sides went through the three opens and the driver exited
C18_Witness ==
  /\ termKind = "exit" /\ ppc = "done"
  /\ {o \in opened : o[1] = "pane"} =
       {<<"pane", "in", "r">>, <<"pane", "out", "w">>, <<"pane", "ret", "w">>}
  /\ {o \in opened : o[1] = "driver"} =
       {<<"driver", "in", "w">>, <<"driver", "out", "r">>, <<"driver", "ret", "r">>}

\* the I/O errors of main's own opens, copy and read
MainIoErrors ==
  OutErrors \cup {"failed to open exit code FIFO",
                  "failed to read from exit code FIFO"}
\* main has ended through exit(rc), or through an I/O error of its own
MainEnded ==
  termKind = "exit" \/ (termKind = "fatal" /\ errCtx \in MainIoErrors)

\* C11: main never waits for the input-copy thread.  While the driver runs,
\* main is either blocked in an open() or read() of a FIFO or has a step
\* it can take, whatever the thread does; once the picker has ended (the
\* pane closed `out`) while the thread still runs, main goes on through
\* exit-status retrieval to the end of the process, with nothing assumed of
\* the thread; and an exit of the driver carries the marker read from `ret`.
C11_MainDoesNotWaitForThread ==
  /\ [](Running => (DriverBlocked \/ ENABLED MainStep))
  /\ [](termKind = "exit" =>
         /\ Len(markers) = 1 /\ retBuf = Marker(markers[1])
         /\ exitCode = markers[1])
  /\ (Running /\ tpc = "copy" /\ pickerStatus # -1) ~> MainEnded

\* the driver exited with the code of a failed picker while its thread was
\* still waiting for standard input that never ends
C11_Witness ==
  /\ termKind = "exit" /\ exitCode = 1 /\ markers = <<1>>
  /\ tpc = "copy" /\ ~stdinCloses /\ stdinPos = Len(stdinData)

\* C12: the step in which the input copy fails changes nothing of main and
\* does not end the process; afterwards main still ends through exit(rc)
\* or an I/O error of its own, and when it has read `ret` to the end it has
\* copied all of `out` and exits with the code of the picker's status, as
\* in a run without the error.
C12_ThreadErrorIsNotFatal ==
  /\ [][(threadErr' /\ ~threadErr) =>
          (UNCHANGED <<mainVars, termVars, dirExists, exists>> /\ Running')]_vars
  /\ []((threadErr /\ ReadCompleted) =>
          /\ termKind = "exit"
          /\ stdout = paneOut
          /\ exitCode = MarkerFor(pickerStatus))
  /\ (threadErr /\ Running) ~> MainEnded

\* the input copy failed before the picker wrote anything; the driver still
\* copied the picker's output and exited with 0
C12_Witness ==
  /\ threadErr /\ termKind = "exit" /\ exitCode = 0
  /\ paneOut # <<>> /\ stdout = paneOut /\ inWritten # stdinData

====
